---- MODULE Spec2Model ----
(***************************************************************************)
(* Model of worklenz-backend/src/controllers/tasks-controller-v2.ts:       *)
(* the grouping engine (getList, updateMapByGroup, updateTaskProgresses),  *)
(* the dependency gate (getTaskDependencyStatus,                           *)
(* checkForCompletedDependencies), label assignment (assignLabelsToTask),  *)
(* the re-parenting operations (convertToTask, convertToSubtask) and the   *)
(* query composer (flatString, getFilterBy..., getQuery, getTasksOnly,     *)
(* getTasksByName, searchTasks).                                           *)
(*                                                                         *)
(* Each part of the controller has its own specification over the shared   *)
(* variables; a specification leaves the variables of the other parts at   *)
(* their idle values.                                                      *)
(***************************************************************************)
EXTENDS Integers, Sequences, FiniteSets, TLC

VARIABLES
    req,                  \* the request being handled (req.query, req.params, req.body)
    res,                  \* what the handler answered
    rows,                 \* result.rows of the task query of getList
    shells,               \* result.rows of the query of getGroups
    db_tasks,             \* table tasks of the store
    db_tasks_before,      \* table tasks as the request in hand found it
    db_task_dependencies, \* table task_dependencies of the store
    db_writes,            \* add_or_remove_task_label calls: issued, completed, failed
    db_query              \* the query text and parameters last sent to the store

vars == <<req, res, rows, shells, db_tasks, db_tasks_before, db_task_dependencies, db_writes, db_query>>

\* SQL NULL / JavaScript null, undefined
NULL == "NULL"

NoRequest == [op |-> "none"]
NoResponse == [kind |-> "none"]
NoQuery == [text |-> <<>>, params |-> <<>>]
NoWrites == [issued |-> <<>>, completed |-> {}, failed |-> {}]

\* new ServerResponse(true, body) sent with status 200
Success(body) == [kind |-> "response", done |-> TRUE, body |-> body]

\* what HandleExceptions answers when the wrapped handler throws
Failure == [kind |-> "response", done |-> FALSE, body |-> [kind |-> "null"]]

RECURSIVE SumSeq(_)
SumSeq(s) == IF s = <<>> THEN 0 ELSE Head(s) + SumSeq(Tail(s))

RECURSIVE SetToSeq(_)
SetToSeq(S) == IF S = {} THEN <<>>
               ELSE LET x == CHOOSE y \in S : TRUE IN <<x>> \o SetToSeq(S \ {x})

\* the sequences over S of length at most n
SeqsUpTo(S, n) == UNION {[1..k -> S] : k \in 0..n}

(***************************************************************************)
(* STORE CONTENT THE GROUPING ENGINE READS                                 *)
(***************************************************************************)

\* GroupBy of tasks-controller-base
GroupBy == [STATUS |-> "status", PRIORITY |-> "priority", LABELS |-> "labels", PHASE |-> "phase"]

\* UNMAPPED of shared/constants
UNMAPPED == "Unmapped"

\* table sys_task_status_categories
sys_task_status_categories ==
    {[id |-> "todo",  is_todo |-> TRUE,  is_doing |-> FALSE, is_done |-> FALSE],
     [id |-> "doing", is_todo |-> FALSE, is_doing |-> TRUE,  is_done |-> FALSE],
     [id |-> "done",  is_todo |-> FALSE, is_doing |-> FALSE, is_done |-> TRUE]}

\* table task_statuses: project A has s1, s2, s3 and project B has s4, s5
task_statuses ==
    {[id |-> "s1", project_id |-> "A", category_id |-> "todo"],
     [id |-> "s2", project_id |-> "A", category_id |-> "doing"],
     [id |-> "s3", project_id |-> "A", category_id |-> "done"],
     [id |-> "s4", project_id |-> "B", category_id |-> "todo"],
     [id |-> "s5", project_id |-> "B", category_id |-> "done"]}

ProjectIds == {"A", "B"}
StatusIdsOf(projectId) == {ts.id : ts \in {x \in task_statuses : x.project_id = projectId}}

\* the statuses of the project whose list getList groups
StatusIds == StatusIdsOf("A")
PriorityIds == {"p1", "p2"}
PhaseIds == {"ph1"}

\* the status_category column of the task query: the category row of the
\* status of the task
status_category(statusId) ==
    LET ts == CHOOSE x \in task_statuses : x.id = statusId
        c == CHOOSE x \in sys_task_status_categories : x.id = ts.category_id
    IN [is_todo |-> c.is_todo, is_doing |-> c.is_doing, is_done |-> c.is_done]

\* longest flat task list handed to the grouping engine
MaxRows == 2

\* a row of the task query, with the columns the grouping engine reads
TaskRow == [status : StatusIds, priority : PriorityIds, phase_id : PhaseIds \cup {NULL}]

\* the group parameters the model sends; "bogus" is no member of GroupBy
GroupParams == {GroupBy.STATUS, GroupBy.PRIORITY, GroupBy.LABELS, GroupBy.PHASE, "bogus", NULL}

(***************************************************************************)
(* GROUPING ENGINE AND PROGRESS AGGREGATOR                                 *)
(***************************************************************************)

\* the table getGroups reads for a grouping dimension: the ids a shell can have
GroupIdsOf(groupBy) ==
    CASE groupBy = GroupBy.STATUS -> StatusIds
      [] groupBy = GroupBy.PRIORITY -> PriorityIds
      [] groupBy = GroupBy.PHASE -> PhaseIds
      [] OTHER -> {}

\* getGroups: the query chosen by the switch, run with params.  The LABELS
\* query names $1 and $2 and is run with params = [], which the store rejects;
\* an unknown groupBy runs the empty query text, which yields no rows.
getGroups(groupBy, table) ==
    CASE groupBy \in {GroupBy.STATUS, GroupBy.PRIORITY, GroupBy.PHASE} ->
            [threw |-> FALSE, rows |-> SetToSeq({[id |-> g, name |-> g] : g \in table})]
      [] groupBy = GroupBy.LABELS -> [threw |-> TRUE, rows |-> <<>>]
      [] OTHER -> [threw |-> FALSE, rows |-> <<>>]

\* constructor of TaskListGroup
TaskListGroup(group) ==
    [name |-> group.name,
     todo_progress |-> 0,
     doing_progress |-> 0,
     done_progress |-> 0,
     tasks |-> <<>>]

\* groups.reduce(...) of getList: one TaskListGroup per shell that has an id
RECURSIVE reduceGroups(_, _)
reduceGroups(groups, g) ==
    IF groups = <<>> THEN g
    ELSE LET group == Head(groups)
             g2 == IF group.id # NULL
                   THEN [k \in DOMAIN g \cup {group.id} |->
                            IF k = group.id THEN TaskListGroup(group) ELSE g[k]]
                   ELSE g
         IN reduceGroups(Tail(groups), g2)

\* map[key]?.tasks.push(task): nothing happens when map has no such key
push(map, key, task) ==
    IF key \in DOMAIN map
    THEN [map EXCEPT ![key].tasks = Append(@, task)]
    ELSE map

\* the for loop of updateMapByGroup, from task number i on
RECURSIVE updateMapLoop(_, _, _, _, _)
updateMapLoop(taskList, groupBy, map, unmapped, i) ==
    IF i > Len(taskList) THEN [map |-> map, unmapped |-> unmapped]
    ELSE LET t == taskList[i]
             task == [index |-> i - 1,
                      status |-> t.status,
                      priority |-> t.priority,
                      phase_id |-> t.phase_id,
                      status_category |-> status_category(t.status)]
         IN CASE groupBy = GroupBy.STATUS ->
                    updateMapLoop(taskList, groupBy, push(map, task.status, task), unmapped, i + 1)
              [] groupBy = GroupBy.PRIORITY ->
                    updateMapLoop(taskList, groupBy, push(map, task.priority, task), unmapped, i + 1)
              [] groupBy = GroupBy.PHASE /\ task.phase_id # NULL ->
                    updateMapLoop(taskList, groupBy, push(map, task.phase_id, task), unmapped, i + 1)
              [] OTHER ->
                    updateMapLoop(taskList, groupBy, map, Append(unmapped, task), i + 1)

updateMapByGroup(taskList, groupBy, map) ==
    LET r == updateMapLoop(taskList, groupBy, map, <<>>, 1)
    IN IF Len(r.unmapped) > 0
       THEN [k \in DOMAIN r.map \cup {UNMAPPED} |->
                IF k = UNMAPPED
                THEN [name |-> UNMAPPED, tasks |-> r.unmapped]
                ELSE r.map[k]]
       ELSE r.map

\* calculateTaskCompleteRatio of tasks-controller-base: the share of count in
\* total as a whole percentage, rounded to the nearest, 0 for an empty total
calculateTaskCompleteRatio(count, total) ==
    IF total = 0 THEN 0 ELSE (200 * count + total) \div (2 * total)

countWhere(taskList, flag) ==
    Cardinality({i \in 1..Len(taskList) : taskList[i].status_category[flag]})

\* updateTaskProgresses with the group size taken one too small
updateTaskProgressesOffByOne(group) ==
    LET todoCount == countWhere(group.tasks, "is_todo")
        doingCount == countWhere(group.tasks, "is_doing")
        doneCount == countWhere(group.tasks, "is_done")
        total == Len(group.tasks) - 1
    IN [name |-> group.name,
        tasks |-> group.tasks,
        todo_progress |-> calculateTaskCompleteRatio(todoCount, total),
        doing_progress |-> calculateTaskCompleteRatio(doingCount, total),
        done_progress |-> calculateTaskCompleteRatio(doneCount, total)]

updateTaskProgresses(group) ==
    LET todoCount == countWhere(group.tasks, "is_todo")
        doingCount == countWhere(group.tasks, "is_doing")
        doneCount == countWhere(group.tasks, "is_done")
        total == Len(group.tasks)
    IN [name |-> group.name,
        tasks |-> group.tasks,
        todo_progress |-> calculateTaskCompleteRatio(todoCount, total),
        doing_progress |-> calculateTaskCompleteRatio(doingCount, total),
        done_progress |-> calculateTaskCompleteRatio(doneCount, total)]

\* the body of getList after the task query: getGroups, reduce, updateMapByGroup,
\* updateTaskProgresses of every group, and the answer
getListResponse(query, taskList, table) ==
    LET groupBy == IF query.group # NULL THEN query.group ELSE GroupBy.STATUS
        groups == getGroups(groupBy, table)
        map == updateMapByGroup(taskList, groupBy, reduceGroups(groups.rows, <<>>))
        updatedGroups == [key \in DOMAIN map |-> updateTaskProgresses(map[key])]
    IN IF groups.threw THEN Failure
       ELSE Success([kind |-> "groups", groups |-> updatedGroups])

\* a getList request arrives: the task query has answered rows, the table of
\* the grouping dimension holds shells
InitGroup ==
    /\ \E group \in GroupParams :
          /\ req = [op |-> "getList", query |-> [group |-> group]]
          /\ shells \in SUBSET GroupIdsOf(IF group # NULL THEN group ELSE GroupBy.STATUS)
    /\ rows \in SeqsUpTo(TaskRow, MaxRows)
    /\ res = NoResponse
    /\ db_tasks = <<>>
    /\ db_tasks_before = <<>>
    /\ db_task_dependencies = {}
    /\ db_writes = NoWrites
    /\ db_query = NoQuery

getList ==
    /\ req.op = "getList"
    /\ res = NoResponse
    /\ res' = getListResponse(req.query, rows, shells)
    /\ UNCHANGED <<req, rows, shells, db_tasks, db_tasks_before, db_task_dependencies, db_writes, db_query>>

NextGroup == getList

SpecGroup == InitGroup /\ [][NextGroup]_vars

\* the grouping dimension of the request in hand
groupByOfReq == IF req.query.group # NULL THEN req.query.group ELSE GroupBy.STATUS

\* getList has answered a request with groups
GroupsAnswered ==
    req.op = "getList" /\ res.kind = "response" /\ res.done

\* the places (group key, position) at which the task of display index i sits
PlacesOf(groups, i) ==
    UNION {{<<k, j>> : j \in {x \in 1..Len(groups[k].tasks) : groups[k].tasks[x].index = i}} :
              k \in DOMAIN groups}

\* C1: for the dimensions partitioned per task (STATUS, PRIORITY, PHASE), after
\* updateMapByGroup every input task sits in exactly one group's task list and
\* the sizes of all the task lists, the unmapped group's included, add up to
\* the number of input tasks.
C1_PartitionExhaustive ==
    (GroupsAnswered /\ groupByOfReq \in {GroupBy.STATUS, GroupBy.PRIORITY, GroupBy.PHASE}) =>
        LET groups == res.body.groups
        IN /\ SumSeq([n \in 1..Cardinality(DOMAIN groups) |->
                        Len(groups[SetToSeq(DOMAIN groups)[n]].tasks)]) = Len(rows)
           /\ \A i \in 0..(Len(rows) - 1) : Cardinality(PlacesOf(groups, i)) = 1

\* C8: every group updateTaskProgresses handled has its three progress values
\* between 0 and 100, and a group without tasks has all three at 0.
C8_ProgressInRange ==
    GroupsAnswered =>
        \A k \in DOMAIN res.body.groups :
            LET g == res.body.groups[k]
            IN /\ g.todo_progress \in 0..100
               /\ g.doing_progress \in 0..100
               /\ g.done_progress \in 0..100
               /\ (Len(g.tasks) = 0 =>
                      g.todo_progress = 0 /\ g.doing_progress = 0 /\ g.done_progress = 0)

\* a response with an empty group next to a group whose tasks are all done
C8_Witness ==
    /\ GroupsAnswered
    /\ \E k \in DOMAIN res.body.groups : Len(res.body.groups[k].tasks) = 0
    /\ \E k \in DOMAIN res.body.groups :
          /\ Len(res.body.groups[k].tasks) = MaxRows
          /\ res.body.groups[k].done_progress = 100
          /\ res.body.groups[k].todo_progress = 0

\* the grouping dimensions getGroups has a case for
KnownGroupings == {GroupBy.STATUS, GroupBy.PRIORITY, GroupBy.LABELS, GroupBy.PHASE}

\* C11: a getList request whose group parameter names none of the known
\* grouping dimensions is never answered with a successful response that
\* carries groups.
C11_UnknownGroupRejected ==
    (req.op = "getList" /\ groupByOfReq \notin KnownGroupings) =>
        ~(res.kind = "response" /\ res.done /\ res.body.kind = "groups")

(***************************************************************************)
(* DEPENDENCY GATE                                                         *)
(***************************************************************************)

TaskIds == {"t1", "t2", "t3"}

\* the project of each task of the store
ProjectOfTask == [t \in TaskIds |-> IF t = "t3" THEN "B" ELSE "A"]

\* most edges the table task_dependencies holds
MaxDeps == 2

\* the status ids a dependency-status request carries: the statuses of both
\* projects and an id that is no status at all
TargetStatusIds == {ts.id : ts \in task_statuses} \cup {"nostatus"}

\* (SELECT project_id FROM tasks WHERE id = $1)
project_id_of(taskId) ==
    IF taskId \in DOMAIN db_tasks THEN db_tasks[taskId].project_id ELSE NULL

\* SELECT id FROM sys_task_status_categories WHERE is_done IS <flag>
categoriesWhereDone(flag) ==
    {c.id : c \in {x \in sys_task_status_categories : x.is_done = flag}}

\* first WHEN of the CASE: the target status is a status of the project of the
\* task and its category is one with is_done IS FALSE
statusIsNotDone(taskId, nextStatusId) ==
    \E ts \in task_statuses :
        /\ ts.id = nextStatusId
        /\ project_id_of(taskId) # NULL
        /\ ts.project_id = project_id_of(taskId)
        /\ ts.category_id \in categoriesWhereDone(FALSE)

\* second WHEN of the CASE, with any related task at all counting as incomplete
hasIncompleteDependenciesAnyEdge(taskId) ==
    \E td \in db_task_dependencies : td[1] = taskId

\* second WHEN of the CASE: an edge taskId -> related task (LEFT JOIN tasks t)
\* whose t.status_id is NOT IN the done statuses of the project of t; for an
\* edge without a task row t.status_id is NULL and the row is not selected
hasIncompleteDependencies(taskId) ==
    \E td \in db_task_dependencies :
        /\ td[1] = taskId
        /\ td[2] \in DOMAIN db_tasks
        /\ LET t == db_tasks[td[2]]
           IN t.status_id \notin
                 {ts.id : ts \in {x \in task_statuses :
                                    /\ t.project_id = x.project_id
                                    /\ x.category_id \in categoriesWhereDone(TRUE)}}

\* the CASE with its two WHEN branches in the other order
can_continueDependenciesFirst(taskId, nextStatusId) ==
    CASE hasIncompleteDependencies(taskId) -> FALSE
      [] statusIsNotDone(taskId, nextStatusId) -> TRUE
      [] OTHER -> TRUE

\* the can_continue column of the query of checkForCompletedDependencies
can_continue(taskId, nextStatusId) ==
    CASE statusIsNotDone(taskId, nextStatusId) -> TRUE
      [] hasIncompleteDependencies(taskId) -> FALSE
      [] OTHER -> TRUE

\* HandleExceptions of decorators/handle-exceptions: what the wrapped method
\* returns, and when it throws a failure answer through the response object
\* among its arguments; a method called without one cannot answer, and the
\* failure reaches its caller
HandleExceptions(outcome, hasResponseArg) ==
    IF ~outcome.threw THEN outcome
    ELSE IF hasResponseArg THEN [threw |-> FALSE, value |-> Failure]
    ELSE [threw |-> TRUE, value |-> NULL]

\* checkForCompletedDependencies: db.query, then data.can_continue
checkForCompletedDependencies(taskId, nextStatusId, dbFails) ==
    HandleExceptions(
        IF dbFails THEN [threw |-> TRUE, value |-> NULL]
        ELSE [threw |-> FALSE, value |-> can_continue(taskId, nextStatusId)],
        FALSE)

\* getTaskDependencyStatus answering can_continue: true when the check failed
getTaskDependencyStatusSwallowing(query, dbFails) ==
    LET canContinue == checkForCompletedDependencies(query.taskId, query.statusId, dbFails)
    IN Success([kind |-> "dependency", can_continue |-> IF canContinue.threw THEN TRUE ELSE canContinue.value])

\* getTaskDependencyStatus: the answer to a request with this query
getTaskDependencyStatusResponse(query, dbFails) ==
    LET canContinue == checkForCompletedDependencies(query.taskId, query.statusId, dbFails)
    IN HandleExceptions(
           IF canContinue.threw THEN canContinue
           ELSE [threw |-> FALSE,
                 value |-> Success([kind |-> "dependency", can_continue |-> canContinue.value])],
           TRUE).value

\* a store in which every task has a status of its own project and
\* task_dependencies holds at most MaxDeps edges, cycles and self-edges included
InitGate ==
    /\ db_tasks \in {f \in [TaskIds -> [project_id : ProjectIds,
                                         status_id : {ts.id : ts \in task_statuses},
                                         parent_task_id : {NULL},
                                         sort_order : {0}]] :
                        \A t \in TaskIds :
                            /\ f[t].project_id = ProjectOfTask[t]
                            /\ f[t].status_id \in StatusIdsOf(f[t].project_id)}
    /\ db_tasks_before = <<>>
    /\ db_task_dependencies \in {d \in SUBSET (TaskIds \X TaskIds) : Cardinality(d) <= MaxDeps}
    /\ req = NoRequest
    /\ res = NoResponse
    /\ rows = <<>>
    /\ shells = {}
    /\ db_writes = NoWrites
    /\ db_query = NoQuery

getTaskDependencyStatus ==
    \E taskId \in TaskIds, statusId \in TargetStatusIds, dbFails \in BOOLEAN :
        /\ req' = [op |-> "getTaskDependencyStatus",
                   query |-> [taskId |-> taskId, statusId |-> statusId],
                   dbFails |-> dbFails]
        /\ res' = getTaskDependencyStatusResponse(req'.query, dbFails)
        /\ UNCHANGED <<rows, shells, db_tasks, db_tasks_before, db_task_dependencies, db_writes, db_query>>

NextGate == getTaskDependencyStatus

SpecGate == InitGate /\ [][NextGate]_vars

\* the gate has answered a request the store served
GateAnswered ==
    req.op = "getTaskDependencyStatus" /\ ~req.dbFails

\* the category of a status is the done category
IsDoneStatus(statusId) ==
    \E ts \in task_statuses :
        ts.id = statusId /\ ts.category_id \in categoriesWhereDone(TRUE)

\* the tasks the task depends on directly
DirectDependencies(taskId) == {td[2] : td \in {e \in db_task_dependencies : e[1] = taskId}}

\* the tasks reachable from the task over one or more dependency edges
RECURSIVE ReachableIn(_, _)
ReachableIn(S, n) ==
    IF n = 0 THEN S
    ELSE ReachableIn(S \cup UNION {DirectDependencies(x) : x \in S}, n - 1)
TransitiveDependencies(taskId) ==
    ReachableIn(DirectDependencies(taskId), Cardinality(TaskIds))

C3_DoneIffDirectDependenciesDone ==
    (GateAnswered /\ IsDoneStatus(req.query.statusId)) =>
        /\ res.done
        /\ res.body.can_continue =
              (\A d \in DirectDependencies(req.query.taskId) : IsDoneStatus(db_tasks[d].status_id))

\* a move to a done status allowed although a transitive dependency, on a
\* dependency cycle through the task itself, is not done
C3_Witness ==
    /\ GateAnswered
    /\ IsDoneStatus(req.query.statusId)
    /\ res.done /\ res.body.can_continue = TRUE
    /\ DirectDependencies(req.query.taskId) # {}
    /\ req.query.taskId \in TransitiveDependencies(req.query.taskId)
    /\ \E d \in TransitiveDependencies(req.query.taskId) : ~IsDoneStatus(db_tasks[d].status_id)

\* C4: when the store call of the gate fails, getTaskDependencyStatus answers
\* with a failure; never with a success, never with a can_continue value.
C4_GateFailureSurfaced ==
    (req.op = "getTaskDependencyStatus" /\ req.dbFails) =>
        /\ res.kind = "response"
        /\ ~res.done
        /\ res.body.kind # "dependency"

\* the store call failed for a request the store would have blocked
C4_Witness ==
    /\ req.op = "getTaskDependencyStatus" /\ req.dbFails
    /\ ~can_continue(req.query.taskId, req.query.statusId)
    /\ res = Failure

(***************************************************************************)
(* LABEL ASSIGNMENT                                                        *)
(***************************************************************************)

LabelIds == {"l1", "l2"}

\* most labels a request carries
MaxLabels == 3

\* the writes (by position in req.body.labels) issued and not yet answered
PendingWrites ==
    {i \in 1..Len(db_writes.issued) : i \notin db_writes.completed \cup db_writes.failed}

InitLabels ==
    /\ req = NoRequest
    /\ res = NoResponse
    /\ rows = <<>>
    /\ shells = {}
    /\ db_tasks = <<>>
    /\ db_tasks_before = <<>>
    /\ db_task_dependencies = {}
    /\ db_writes = NoWrites
    /\ db_query = NoQuery

\* assignLabelsToTask up to its return: labels.forEach runs each async callback
\* up to its await, which issues the db.query of the label, and drops the
\* promise; the answer is sent right after the loop
assignLabelsToTask ==
    /\ req = NoRequest
    /\ \E id \in TaskIds, labels \in SeqsUpTo(LabelIds, MaxLabels) :
          /\ req' = [op |-> "assignLabelsToTask", params |-> [id |-> id], body |-> [labels |-> labels]]
          /\ db_writes' = [issued |-> labels, completed |-> {}, failed |-> {}]
    /\ res' = Success([kind |-> "null"])
    /\ UNCHANGED <<rows, shells, db_tasks, db_tasks_before, db_task_dependencies, db_query>>

\* the store completes one of the writes in flight: the await of its callback resumes
writeCompletes ==
    \E i \in PendingWrites :
        /\ db_writes' = [db_writes EXCEPT !.completed = @ \cup {i}]
        /\ UNCHANGED <<req, res, rows, shells, db_tasks, db_tasks_before, db_task_dependencies, db_query>>

\* the store fails one of the writes in flight: the promise of its callback
\* rejects, and nothing holds that promise
writeFails ==
    \E i \in PendingWrites :
        /\ db_writes' = [db_writes EXCEPT !.failed = @ \cup {i}]
        /\ UNCHANGED <<req, res, rows, shells, db_tasks, db_tasks_before, db_task_dependencies, db_query>>

NextLabels == assignLabelsToTask \/ writeCompletes \/ writeFails

SpecLabels == InitLabels /\ [][NextLabels]_vars

\* C5: in assignLabelsToTask the label writes go out one at a time, each
\* completed before the next is issued; the success answer is sent only after
\* every write has completed, so never after a failed write.
C5_WritesAwaitedInSequence ==
    req.op = "assignLabelsToTask" =>
        /\ \A i \in 2..Len(db_writes.issued) : (i - 1) \in db_writes.completed
        /\ (res.kind = "response" /\ res.done) =>
              /\ db_writes.failed = {}
              /\ \A i \in 1..Len(db_writes.issued) : i \in db_writes.completed

(***************************************************************************)
(* RE-PARENTING: convertToTask, convertToSubtask                           *)
(*                                                                         *)
(* Of table tasks the model keeps the columns project_id, status_id,       *)
(* parent_task_id and sort_order.  priority_id and the phase of a task     *)
(* (table task_phase, written by handle_on_task_phase_change) are not      *)
(* kept: the priority and phase branches of convertToSubtask are modelled  *)
(* by what they write to the kept columns.                                 *)
(***************************************************************************)

\* largest sort_order the model lets a task reach
MaxSort == 2

\* the group_by values a convertToSubtask request carries; "labels" is none of
\* the three the handler knows
GroupByBodies == {"status", "priority", "phase", "labels"}

\* the ids of the groups of a task list a task of this project can be dropped
\* into: the to_group_id values of convertToSubtask
ToGroupIds(groupType, projectId) ==
    CASE groupType = "status" -> StatusIdsOf(projectId)
      [] groupType = "priority" -> PriorityIds
      [] groupType = "phase" -> PhaseIds \cup {UNMAPPED}
      [] OTHER -> {NULL}

MaxOf(S) == CHOOSE m \in S : \A x \in S : x <= m

\* COALESCE((SELECT MAX(sort_order) + 1 FROM tasks WHERE project_id = $2), 0)
nextSortOrderIgnoringProject(projectId) ==
    MaxOf({db_tasks[t].sort_order : t \in DOMAIN db_tasks}) + 1

nextSortOrder(projectId) ==
    LET inProject == {t \in DOMAIN db_tasks : db_tasks[t].project_id = projectId}
    IN IF inProject = {} THEN 0
       ELSE MaxOf({db_tasks[t].sort_order : t \in inProject}) + 1

\* the tasks of the store of this part: two tasks of project A; project B
\* has no task
TreeTaskIds == {"t1", "t2"}

\* a store in which every task is a root task or the child of a root task of
\* its own project
InitTree ==
    /\ db_tasks \in {f \in [TreeTaskIds -> [project_id : {"A"},
                                             status_id : {"s1"},
                                             parent_task_id : TreeTaskIds \cup {NULL},
                                             sort_order : 0..1]] :
                        /\ \A t \in TreeTaskIds :
                              /\ f[t].parent_task_id # t
                              /\ f[t].parent_task_id # NULL =>
                                    f[f[t].parent_task_id].parent_task_id = NULL
                        /\ f["t1"].sort_order = 0
                        /\ f["t2"].sort_order = 1}
    /\ db_tasks_before = db_tasks
    /\ db_task_dependencies = {}
    /\ req = NoRequest
    /\ res = NoResponse
    /\ rows = <<>>
    /\ shells = {}
    /\ db_writes = NoWrites
    /\ db_query = NoQuery

\* convertToTask: the UPDATE, then get_single_task and the answer
convertToTask ==
    \E id \in TreeTaskIds, project_id \in ProjectIds :
        /\ nextSortOrder(project_id) <= MaxSort
        /\ req' = [op |-> "convertToTask", body |-> [id |-> id, project_id |-> project_id]]
        /\ db_tasks_before' = db_tasks
        /\ db_tasks' = [db_tasks EXCEPT ![id] =
                           [@ EXCEPT !.parent_task_id = NULL,
                                     !.sort_order = nextSortOrder(project_id)]]
        /\ res' = Success([kind |-> "task", id |-> id, task |-> db_tasks'[id]])
        /\ UNCHANGED <<rows, shells, db_task_dependencies, db_writes, db_query>>

\* convertToSubtask: the UPDATE of the branch chosen by group_by (for any other
\* group_by the query text is empty and nothing is written), then
\* get_single_task and the answer
convertToSubtask ==
    \E id \in TreeTaskIds, project_id \in ProjectIds, parent_task_id \in TreeTaskIds,
       groupType \in GroupByBodies :
        \E to_group_id \in ToGroupIds(groupType, db_tasks[id].project_id) :
            /\ nextSortOrder(project_id) <= MaxSort
            /\ req' = [op |-> "convertToSubtask",
                       body |-> [id |-> id, project_id |-> project_id,
                                 parent_task_id |-> parent_task_id,
                                 group_by |-> groupType, to_group_id |-> to_group_id]]
            /\ db_tasks_before' = db_tasks
            /\ db_tasks' =
                  CASE groupType = "status" ->
                          [db_tasks EXCEPT ![id] =
                              [@ EXCEPT !.parent_task_id = parent_task_id,
                                        !.sort_order = nextSortOrder(project_id),
                                        !.status_id = to_group_id]]
                    [] groupType \in {"priority", "phase"} ->
                          [db_tasks EXCEPT ![id] =
                              [@ EXCEPT !.parent_task_id = parent_task_id,
                                        !.sort_order = nextSortOrder(project_id)]]
                    [] OTHER -> db_tasks
            /\ res' = Success([kind |-> "task", id |-> id, task |-> db_tasks'[id]])
            /\ UNCHANGED <<rows, shells, db_task_dependencies, db_writes, db_query>>

NextTree == convertToTask \/ convertToSubtask

SpecTree == InitTree /\ [][NextTree]_vars

\* C6: through any sequence of convertToSubtask and convertToTask every task
\* keeps depth 0 or 1: no task is its own parent, and no task has a parent that
\* has a parent itself (so no task with children has a parent).
C6_DepthAtMostOne ==
    \A t \in DOMAIN db_tasks :
        LET p == db_tasks[t].parent_task_id
        IN /\ p # t
           /\ p # NULL => db_tasks[p].parent_task_id = NULL

\* convertToTask has just run on a task that was a sub-task
ConvertedSubtask ==
    /\ req.op = "convertToTask"
    /\ db_tasks_before[req.body.id].parent_task_id # NULL

\* the sort positions the tasks of project Q had when the request arrived
SortOrdersBefore(Q) ==
    {db_tasks_before[t].sort_order :
        t \in {x \in DOMAIN db_tasks_before : db_tasks_before[x].project_id = Q}}

\* C7: convertToTask on a sub-task X with project Q sets the parent of X to
\* null and its sort position to one more than the largest sort position of
\* the tasks of Q at that moment, 0 when Q has none; the parent and the sort
\* position of every other task stay.
C7_ConvertToTask ==
    ConvertedSubtask =>
        LET X == req.body.id
            Q == req.body.project_id
        IN /\ db_tasks[X].parent_task_id = NULL
           /\ \/ SortOrdersBefore(Q) = {} /\ db_tasks[X].sort_order = 0
              \/ /\ SortOrdersBefore(Q) # {}
                 /\ db_tasks[X].sort_order \in {m + 1 : m \in SortOrdersBefore(Q)}
                 /\ \A m \in SortOrdersBefore(Q) : m < db_tasks[X].sort_order
           /\ \A t \in DOMAIN db_tasks \ {X} :
                 /\ db_tasks[t].parent_task_id = db_tasks_before[t].parent_task_id
                 /\ db_tasks[t].sort_order = db_tasks_before[t].sort_order

\* a sub-task made a root task of its own project, behind its former parent
C7_Witness ==
    /\ ConvertedSubtask
    /\ req.body.project_id = "A"
    /\ db_tasks[req.body.id].sort_order = MaxSort
    /\ db_tasks[req.body.id].parent_task_id = NULL

\* a sub-task made a root task in a project without tasks
C7_WitnessEmptyProject ==
    /\ ConvertedSubtask
    /\ req.body.project_id = "B"
    /\ db_tasks[req.body.id].sort_order = 0

(***************************************************************************)
(* QUERY COMPOSER AND FLAT LISTS                                           *)
(*                                                                         *)
(* A text is a sequence of symbols.  A value a request supplies is a       *)
(* sequence of ids and blanks (" "); a piece of SQL the controller writes  *)
(* itself is one symbol.  The query text is the sequence getQuery puts     *)
(* together, and the store reads its WHERE clause back from that text.     *)
(***************************************************************************)

\* index of the first sym in text, 0 when there is none
RECURSIVE indexOfFrom(_, _, _)
indexOfFrom(text, sym, i) ==
    IF i > Len(text) THEN 0
    ELSE IF text[i] = sym THEN i
    ELSE indexOfFrom(text, sym, i + 1)
indexOf(text, sym) == indexOfFrom(text, sym, 1)

\* String.prototype.split: the pieces of text between the separators
RECURSIVE split(_, _)
split(text, sep) ==
    LET i == indexOf(text, sep)
    IN IF i = 0 THEN <<text>>
       ELSE <<SubSeq(text, 1, i - 1)>> \o split(SubSeq(text, i + 1, Len(text)), sep)

\* Array.prototype.join
RECURSIVE join(_, _)
join(pieces, sep) ==
    IF pieces = <<>> THEN <<>>
    ELSE IF Len(pieces) = 1 THEN pieces[1]
    ELSE pieces[1] \o sep \o join(Tail(pieces), sep)

\* Array.prototype.filter(i => !!i): the non-empty strings
RECURSIVE filterNonEmpty(_)
filterNonEmpty(pieces) ==
    IF pieces = <<>> THEN <<>>
    ELSE IF Head(pieces) = <<>> THEN filterNonEmpty(Tail(pieces))
    ELSE <<Head(pieces)>> \o filterNonEmpty(Tail(pieces))

\* flatString: (text || "").split(" ").map(s => `'${s}'`).join(",")
flatString(text) ==
    LET pieces == split(text, " ")
    IN join([i \in 1..Len(pieces) |-> <<"'">> \o pieces[i] \o <<"'">>], <<",">>)

\* getFilterByStatusWhereClosure without its test for an empty text
getFilterByStatusWhereClosureUnguarded(text) ==
    <<"status_id IN (">> \o flatString(text) \o <<")">>

getFilterByStatusWhereClosure(text) ==
    IF text # <<>> THEN <<"status_id IN (">> \o flatString(text) \o <<")">> ELSE <<>>

getFilterByPriorityWhereClosure(text) ==
    IF text # <<>> THEN <<"priority_id IN (">> \o flatString(text) \o <<")">> ELSE <<>>

getFilterByLabelsWhereClosure(text) ==
    IF text # <<>>
    THEN <<"id IN (SELECT task_id FROM task_labels WHERE label_id IN (">> \o flatString(text) \o <<"))">>
    ELSE <<>>

getFilterByMembersWhereClosure(text) ==
    IF text # <<>>
    THEN <<"id IN (SELECT task_id FROM tasks_assignees WHERE team_member_id IN (">>
             \o flatString(text) \o <<"))">>
    ELSE <<>>

getFilterByProjectsWhereClosure(text) ==
    IF text # <<>> THEN <<"project_id IN (">> \o flatString(text) \o <<")">> ELSE <<>>

getFilterByAssignee(filterBy) ==
    IF filterBy = "member"
    THEN <<"id IN (SELECT task_id FROM tasks_assignees WHERE team_member_id = $1)">>
    ELSE <<"project_id = $1">>

getStatusesQuery(filterBy) ==
    IF filterBy = "member" THEN <<", (SELECT COALESCE(JSON_AGG(rec), '[]'::JSON) ...) AS statuses">>
    ELSE <<>>

\* toPaginationOptions of the base controller, for a request that names no
\* search term, sort field or sort order: no search fragment, and the search
\* field as the sort field
toPaginationOptions(options, searchField) ==
    [searchQuery |-> <<>>, sortField |-> <<searchField>>]

\* the fragments of the WHERE clause of getQuery, before filter and join
queryFilters(options) ==
    LET isSubTasks == options.parent_task # NULL
        archivedFilter == IF options.archived = "true" THEN <<"archived IS TRUE">>
                          ELSE <<"archived IS FALSE">>
        subTasksFilter == IF options.isSubtasksInclude = "true" THEN <<>>
                          ELSE IF isSubTasks THEN <<"parent_task_id = $2">>
                          ELSE <<"parent_task_id IS NULL">>
    IN <<subTasksFilter,
         IF isSubTasks THEN <<"1 = 1">> ELSE archivedFilter,
         IF isSubTasks THEN <<"$1 = $1">> ELSE getFilterByAssignee(options.filterBy),
         getFilterByStatusWhereClosure(options.statuses),
         getFilterByPriorityWhereClosure(options.priorities),
         getFilterByLabelsWhereClosure(options.labels),
         getFilterByMembersWhereClosure(options.members),
         getFilterByProjectsWhereClosure(options.projects)>>

\* getQuery: the text of the task query
getQuery(userId, options) ==
    LET searchField == IF options.search # <<>> THEN "t.name" ELSE "sort_order"
        page == toPaginationOptions(options, searchField)
        sortFields == IF page.sortField # <<>> THEN page.sortField ELSE <<"sort_order">>
        statusesQuery == getStatusesQuery(options.filterBy)
        customColumnsQuery == IF options.customColumns # NULL
                              THEN <<", (SELECT COALESCE(jsonb_object_agg(...)) ...) AS custom_column_values">>
                              ELSE <<>>
        filters == join(filterNonEmpty(queryFilters(options)), <<"AND">>)
    IN <<"SELECT id, name, ... (SELECT start_time FROM task_timers WHERE task_id = t.id AND user_id = '">>
       \o userId
       \o <<"') AS timer_start_time, ... END_DATE">>
       \o customColumnsQuery \o statusesQuery
       \o <<"FROM tasks t WHERE">> \o filters \o page.searchQuery
       \o <<"ORDER BY">> \o sortFields

\* getTasksByName: the text of the search query
getTasksByNameQuery(searchString) ==
    <<"SELECT id AS value, name AS label, ... FROM tasks t WHERE t.name ILIKE '%">>
    \o searchString
    \o <<"%' AND t.project_id = $1 AND t.id != $2 LIMIT">> \o <<"15">> \o <<";">>

(***************************************************************************)
(* The store answering the task query                                      *)
(***************************************************************************)

\* the literals 'x','y',... of an IN list, without their quotes
inList(tokens) ==
    LET pieces == split(tokens, ",")
    IN {SubSeq(pieces[i], 2, Len(pieces[i]) - 1) : i \in 1..Len(pieces)}

\* the value of parameter $n
param(params, n) == IF n <= Len(params) THEN params[n] ELSE NULL

\* whether row t of tasks satisfies one fragment of the WHERE clause
satisfies(t, id, fragment, params) ==
    LET head == fragment[1]
        list == inList(SubSeq(fragment, 2, Len(fragment) - 1))
    IN CASE head = "parent_task_id = $2" ->
                param(params, 2) # NULL /\ t.parent_task_id = param(params, 2)
         [] head = "parent_task_id IS NULL" -> t.parent_task_id = NULL
         [] head = "1 = 1" -> TRUE
         [] head = "$1 = $1" -> param(params, 1) # NULL
         [] head = "archived IS TRUE" -> t.archived
         [] head = "archived IS FALSE" -> ~t.archived
         [] head = "project_id = $1" ->
                param(params, 1) # NULL /\ t.project_id = param(params, 1)
         [] head = "id IN (SELECT task_id FROM tasks_assignees WHERE team_member_id = $1)" ->
                param(params, 1) \in t.assignees
         [] head = "status_id IN (" -> <<t.status_id>> \in list
         [] head = "priority_id IN (" -> <<t.priority_id>> \in list
         [] head = "project_id IN (" -> <<t.project_id>> \in list
         [] head = "id IN (SELECT task_id FROM task_labels WHERE label_id IN (" ->
                \E l \in t.labels : <<l>> \in list
         [] head = "id IN (SELECT task_id FROM tasks_assignees WHERE team_member_id IN (" ->
                \E m \in t.assignees : <<m>> \in list
         [] OTHER -> FALSE

\* the ids of the rows of tasks the WHERE clause of the query text selects
selected(text, params) ==
    LET from == indexOf(text, "FROM tasks t WHERE")
        to == indexOf(text, "ORDER BY")
        fragments == split(SubSeq(text, from + 1, to - 1), "AND")
    IN {id \in DOMAIN db_tasks :
           \A i \in 1..Len(fragments) : satisfies(db_tasks[id], id, fragments[i], params)}

\* ORDER BY sort_order: the selected rows, smallest sort_order first
RECURSIVE ordered(_)
ordered(ids) ==
    IF ids = {} THEN <<>>
    ELSE LET first == CHOOSE x \in ids :
                         \A y \in ids : db_tasks[x].sort_order <= db_tasks[y].sort_order
         IN <<[id |-> first,
               status |-> db_tasks[first].status_id,
               priority |-> db_tasks[first].priority_id,
               parent_task_id |-> db_tasks[first].parent_task_id,
               archived |-> db_tasks[first].archived]>>
            \o ordered(ids \ {first})

\* db.query(q, params) for the task query
queryTasks(text, params) == ordered(selected(text, params))

(***************************************************************************)
(* getTasksOnly, searchTasks                                               *)
(***************************************************************************)

\* updateTaskViewModel of the base controller adds view fields to a row and
\* leaves the columns kept here as they are
updateTaskViewModel(task) == task

\* most multi-value filters (statuses, priorities, labels, members, projects)
\* one request sets
MaxFilters == 1

\* the values a request gives a multi-value filter: none, one id, two ids
FilterTexts(a, b) == {<<>>, <<a>>, <<a, " ", b>>}

MultiValueFilters == {"statuses", "priorities", "labels", "members", "projects"}

\* req.query of getTasksOnly
QueryOptions ==
    {o \in [statuses : FilterTexts("s1", "s3"),
            priorities : FilterTexts("p1", "p2"),
            labels : FilterTexts("l1", "l2"),
            members : FilterTexts("m1", "m2"),
            projects : FilterTexts("A", "B"),
            filterBy : {"member", NULL},
            archived : {"true", NULL},
            parent_task : {"t1", NULL},
            isSubtasksInclude : {"true", NULL},
            count : {"true", NULL},
            search : {<<>>},
            customColumns : {NULL}] :
        Cardinality({f \in MultiValueFilters : o[f] # <<>>}) <= MaxFilters}

\* req.user.id
UserIds == {<<"u1">>, <<"u2">>}

\* req.params.id of getTasksOnly: a project, or a team member with filterBy=member
ParamIds == {"A", "m1"}

\* the names of the tasks and the search strings of searchTasks
SearchStrings == {<<>>, <<"n1">>, <<"n2">>, <<"n1", "n2">>}

QTaskIds == {"t1", "t2"}

\* a request arrives at a store with task t1 of project A, and t2 a task of project A (a root task
\* or a sub-task of t1) or of project B, archived or not, assigned or not
InitQuery ==
    /\ db_tasks \in
          {f \in [QTaskIds -> [project_id : ProjectIds,
                               parent_task_id : {"t1", NULL},
                               status_id : {"s1", "s3", "s5"},
                               priority_id : PriorityIds,
                               archived : BOOLEAN,
                               labels : {{}, {"l1"}},
                               assignees : {{}, {"m1"}},
                               sort_order : 0..1,
                               name : {<<"n1">>, <<"n1", "n2">>}]] :
              /\ f["t1"] = [project_id |-> "A", parent_task_id |-> NULL, status_id |-> "s1",
                            priority_id |-> "p1", archived |-> FALSE, labels |-> {"l1"},
                            assignees |-> {"m1"}, sort_order |-> 0, name |-> <<"n1">>]
              /\ f["t2"].status_id \in StatusIdsOf(f["t2"].project_id)
              /\ f["t2"].parent_task_id # NULL => f["t2"].project_id = "A"
              /\ f["t2"].priority_id = "p2"
              /\ f["t2"].labels = {}
              /\ f["t2"].sort_order = 1
              /\ f["t2"].name = <<"n1", "n2">>}
    /\ db_tasks_before = <<>>
    /\ db_task_dependencies = {}
    /\ req = NoRequest
    /\ res = NoResponse
    /\ rows = <<>>
    /\ shells = {}
    /\ db_writes = NoWrites
    /\ db_query = NoQuery

\* data of getTasksOnly: [data] = result.rows in counts-only mode, else the
\* rows with their view model
getTasksOnlyData(query, result) ==
    IF query.count = "true"
    THEN IF result = <<>> THEN [kind |-> "undefined"]
         ELSE [kind |-> "task", task |-> result[1]]
    ELSE [kind |-> "tasks", tasks |-> [i \in 1..Len(result) |-> updateTaskViewModel(result[i])]]

\* params of the task query in getList and getTasksOnly
queryParams(id, query) ==
    IF query.parent_task # NULL THEN <<id, query.parent_task>> ELSE <<id>>

getTasksOnly ==
    /\ req = NoRequest
    /\ \E userId \in UserIds, id \in ParamIds, query \in QueryOptions :
          LET options == [query EXCEPT !.customColumns = "true"]
              q == getQuery(userId, options)
              params == queryParams(id, options)
              result == queryTasks(q, params)
          IN /\ req' = [op |-> "getTasksOnly", user |-> [id |-> userId],
                        params |-> [id |-> id], query |-> options]
             /\ db_query' = [text |-> q, params |-> params]
             /\ rows' = result
             /\ res' = Success(getTasksOnlyData(options, result))
             /\ UNCHANGED <<shells, db_tasks, db_tasks_before, db_task_dependencies, db_writes>>

\* whether name holds part as a run of symbols: name ILIKE '%part%'
contains(name, part) ==
    \E i \in 0..(Len(name) - Len(part)) : SubSeq(name, i + 1, i + Len(part)) = part

\* the rows the search query selects: the string between the first and the
\* last piece of the text is matched against the names
searchRows(text, params) ==
    LET searchString == SubSeq(text, 2, Len(text) - 3)
    IN {[value |-> id, label |-> db_tasks[id].name] :
           id \in {x \in DOMAIN db_tasks :
                      /\ contains(db_tasks[x].name, searchString)
                      /\ db_tasks[x].project_id = params[1]
                      /\ x # params[2]}}

\* searchTasks: getTasksByName and the answer
searchTasks ==
    /\ req = NoRequest
    /\ \E projectId \in ProjectIds, taskId \in QTaskIds, searchQuery \in SearchStrings :
          LET q == getTasksByNameQuery(searchQuery)
              params == <<projectId, taskId>>
          IN /\ req' = [op |-> "searchTasks",
                        query |-> [projectId |-> projectId, taskId |-> taskId,
                                   searchQuery |-> searchQuery]]
             /\ db_query' = [text |-> q, params |-> params]
             /\ res' = Success([kind |-> "found", tasks |-> searchRows(q, params)])
             /\ UNCHANGED <<rows, shells, db_tasks, db_tasks_before, db_task_dependencies, db_writes>>

NextQuery == getTasksOnly \/ searchTasks

SpecQuery == InitQuery /\ [][NextQuery]_vars

\* two getTasksOnly requests set the same filters: each multi-value filter is
\* set in both or in neither, and the switches (filterBy, archived,
\* parent_task set or not, isSubtasksInclude, count) agree
SameFilters(o1, o2) ==
    /\ \A f \in MultiValueFilters : (o1[f] = <<>>) <=> (o2[f] = <<>>)
    /\ (o1.parent_task = NULL) <=> (o2.parent_task = NULL)
    /\ o1.filterBy = o2.filterBy
    /\ o1.archived = o2.archived
    /\ o1.isSubtasksInclude = o2.isSubtasksInclude
    /\ o1.count = o2.count

\* C9: the query text sent to the store does not depend on the values the
\* request supplies: a request that sets the same filters with other ids,
\* another search string or another caller id sends the same text.
C9_QueryTextIndependentOfValues ==
    /\ req.op = "getTasksOnly" =>
          \A userId \in UserIds, query \in QueryOptions :
              SameFilters(req.query, query) =>
                  getQuery(userId, [query EXCEPT !.customColumns = "true"]) = db_query.text
    /\ req.op = "searchTasks" =>
          \A searchQuery \in SearchStrings : getTasksByNameQuery(searchQuery) = db_query.text

\* C10: in counts-only mode getTasksOnly answers one aggregate row that holds
\* the number of tasks matching the composed predicate.
C10_CountsOnlyReturnsTotal ==
    (req.op = "getTasksOnly" /\ req.query.count = "true") =>
        /\ res.done
        /\ res.body.kind = "aggregate"
        /\ res.body.total = Cardinality(selected(db_query.text, db_query.params))

(***************************************************************************)
(* The predicate of the task query                                         *)
(***************************************************************************)

\* getTasksOnly has sent the task query and answered the request
TasksAnswered ==
    req.op = "getTasksOnly" /\ res.kind = "response" /\ res.done

\* the fragments of the WHERE clause of the query text sent to the store
whereFragments ==
    LET from == indexOf(db_query.text, "FROM tasks t WHERE")
        to == indexOf(db_query.text, "ORDER BY")
    IN split(SubSeq(db_query.text, from + 1, to - 1), "AND")

\* whether the WHERE clause sent to the store holds a fragment that opens with head
hasFragment(head) ==
    \E i \in 1..Len(whereFragments) :
        whereFragments[i] # <<>> /\ whereFragments[i][1] = head

\* the openings of the fragments of the five multi-value filters
MultiValueHeads ==
    {"status_id IN (", "priority_id IN (", "project_id IN (",
     "id IN (SELECT task_id FROM task_labels WHERE label_id IN (",
     "id IN (SELECT task_id FROM tasks_assignees WHERE team_member_id IN ("}

\* the request in hand sets none of the five multi-value filters
NoMultiValueFilter == \A f \in MultiValueFilters : req.query[f] = <<>>

\* the sub-task scope of a request: every task, the children of parent_task,
\* or the root tasks
inSubTaskScope(t, query) ==
    IF query.isSubtasksInclude = "true" THEN TRUE
    ELSE IF query.parent_task # NULL THEN t.parent_task_id = query.parent_task
    ELSE t.parent_task_id = NULL

\* the archived scope of a request on the root level: archived tasks only
\* when archived = "true", else tasks that are not archived
inArchivedScope(t, query) == t.archived <=> (query.archived = "true")

\* the assignee scope of a request on the root level: the tasks assigned to
\* the member id when filterBy = "member", else the tasks of project id
inAssigneeScope(t, id, query) ==
    IF query.filterBy = "member" THEN id \in t.assignees ELSE t.project_id = id

\* the unfiltered base scope of the request in hand, read off the rows of the
\* store: sub-task scope, and for a request without parent_task the archived
\* and the assignee scope
BaseScope ==
    {x \in DOMAIN db_tasks :
        /\ inSubTaskScope(db_tasks[x], req.query)
        /\ req.query.parent_task = NULL =>
              /\ inArchivedScope(db_tasks[x], req.query)
              /\ inAssigneeScope(db_tasks[x], req.params.id, req.query)}

\* the ids of the rows the store returned for the task query
returnedIds == {rows[i].id : i \in 1..Len(rows)}

AssigneeHeads ==
    {"id IN (SELECT task_id FROM tasks_assignees WHERE team_member_id = $1)",
     "project_id = $1"}

\* C13: in the predicate getQuery composes, whatever the options of the
\* request, exactly one assignee-scope fragment is active: "assigned to the
\* given member" or "belongs to the given project", never both, never neither.
C13_ExactlyOneAssigneeFragment ==
    req.op = "getTasksOnly" =>
        /\ Cardinality({head \in AssigneeHeads : hasFragment(head)}) = 1
        /\ \A x \in returnedIds : inAssigneeScope(db_tasks[x], req.params.id, req.query)

\* the two archived fragments of getQuery
ArchivedHeads == {"archived IS TRUE", "archived IS FALSE"}

\* C14: in the predicate getQuery composes, whatever the options of the
\* request, the archived fragment keeps the result to tasks that are not
\* archived, or to archived tasks only when the request sets archived =
\* "true"; no request returns archived and non-archived tasks together.
C14_ArchivedNeverMixed ==
    req.op = "getTasksOnly" =>
        /\ {head \in ArchivedHeads : hasFragment(head)} =
              {IF req.query.archived = "true" THEN "archived IS TRUE" ELSE "archived IS FALSE"}
        /\ \A i \in 1..Len(rows) : rows[i].archived <=> (req.query.archived = "true")
        /\ ~(\E i, j \in 1..Len(rows) : rows[i].archived /\ ~rows[j].archived)

====
